---- MODULE Spec2Model ----
(***************************************************************************)
(* Model of github.com/mlshvsk/netlistener: a net.Listener decorator that  *)
(* throttles the Read and Write calls of the connections it accepts with   *)
(* two shared (global) token buckets and two private (per-connection)      *)
(* token buckets, all of type rate.Limiter (golang.org/x/time/rate).       *)
(*                                                                         *)
(* Time is measured from the current instant: time.Now() is `now` = 0, a *)
(* time in the past is negative, a timer holds the time left until it      *)
(* fires, and a tick of the clock moves every stored time one unit into    *)
(* the past.  The handlers run at the ticks of the clock (the statements   *)
(* of a handler between two waits take no time); a duration is an          *)
(* exact fraction num / den of a clock unit, so a limiter grants tokens at *)
(* the exact time its arithmetic gives (timeToAct), which may lie between  *)
(* two ticks.  Rates are tokens per clock unit.  Every limiter             *)
(* operation runs under the limiter's own mutex and is one atomic step; a  *)
(* handler of the package is a sequence of such steps, interleaved with    *)
(* the steps of the other connections and of the reconfiguring caller.     *)
(***************************************************************************)
EXTENDS Integers, Sequences, FiniteSets, TLC

\* ---------------------------------------------------------------- bounds
MaxLimit == 1        \* limits passed to NewListener / SetLimits are 0..MaxLimit
MaxBuf == 2          \* len(b) of a Read / Write is 1..MaxBuf
MaxSets == 1         \* number of reconfiguration calls

\* ------------------------------------------------------ program constants
Inf == 2000000000           \* rate.Inf (math.MaxFloat64), above every finite limit
MaxInt == 1000000000        \* math.MaxInt, above every limit of the model
InfDuration == 1000000      \* rate.InfDuration, in clock units, above every wait

Conns == {1, 2}             \* the raw connections the underlying listener can hand out
Nil == <<>>                 \* a nil *int
Ptr(v) == <<v>>             \* &v
Limits == 0 .. MaxLimit
OptLimits == {Nil} \cup {Ptr(v) : v \in Limits}

Min(a, b) == IF a < b THEN a ELSE b
Max(a, b) == IF a < b THEN b ELSE a

\* a time.Duration: num / den clock units
Duration(num, den) == [num |-> num, den |-> den]
NoDuration == Duration(0, 1)

\* ------------------------------------------------- config.go: conversions
formatRateLimitNilIsZero(limit) == IF limit = Nil THEN 0 ELSE limit[1]
formatRateLimit(limit) == IF limit = Nil THEN Inf ELSE limit[1]

formatBurstOneMore(limit) == IF limit = Nil THEN 0 ELSE limit[1] + 1
formatBurst(limit) == IF limit = Nil THEN 0 ELSE limit[1]

parseBurstOneMore(limit) ==
    IF limit = Inf THEN 0
    ELSE IF limit >= MaxInt THEN MaxInt
    ELSE limit + 1

parseBurstFromRateLimit(limit) ==
    IF limit = Inf THEN 0
    ELSE IF limit >= MaxInt THEN MaxInt
    ELSE limit

\* -------------------------------------- golang.org/x/time/rate.Limiter
\* A limiter is a heap object: obj is its identity, the other fields are the
\* fields of rate.Limiter.  tokens may be negative (tokens already reserved).
NewLimiter(id, r, b) ==
    [obj |-> id, limit |-> r, burst |-> b, tokens |-> b, last |-> 0]

tokensFromDuration(limit, d) ==
    IF limit <= 0 THEN 0
    ELSE IF limit = Inf THEN (IF d = 0 THEN 0 ELSE Inf)
    ELSE d * limit

\* the time to accumulate `tokens` at `limit`
durationFromTokens(limit, tokens) ==
    IF limit <= 0 THEN Duration(InfDuration, 1) ELSE Duration(tokens, limit)

\* Limiter.advance: the token count at time t
advance(lim, t) ==
    LET last == IF t < lim.last THEN t ELSE lim.last
        delta == tokensFromDuration(lim.limit, t - last)
    IN  IF delta >= Inf THEN lim.burst
        ELSE Min(lim.burst, lim.tokens + delta)

\* One clock unit passes for the bucket: its last update is one unit further
\* in the past, and its refill is brought up to date.  advance is all a limiter
\* ever does with its last field, and advancing twice is advancing once (the
\* cap at burst commutes with a later refill), so each operation finds
\* last = now.
Elapse(lim) ==
    IF lim.obj = 0 THEN lim
    ELSE LET past == [lim EXCEPT !.last = @ - 1]
         IN  [past EXCEPT !.tokens = advance(past, 0), !.last = 0]

SetLimit(lim, t, newLimit) ==
    [lim EXCEPT !.tokens = advance(lim, t), !.last = t, !.limit = newLimit]

SetBurst(lim, t, newBurst) ==
    [lim EXCEPT !.tokens = advance(lim, t), !.last = t, !.burst = newBurst]

\* Limiter.reserveN(t, n, InfDuration): [ok, lim (the limiter afterwards),
\* delay (timeToAct - t)]
reserveN(lim, t, n) ==
    IF lim.limit = Inf THEN [ok |-> TRUE, lim |-> lim, delay |-> NoDuration]
    ELSE IF lim.limit = 0 THEN
        IF lim.burst >= n
        THEN [ok |-> TRUE, lim |-> [lim EXCEPT !.burst = lim.burst - n], delay |-> NoDuration]
        ELSE [ok |-> FALSE, lim |-> lim, delay |-> NoDuration]
    ELSE
        LET tokens == advance(lim, t) - n
            waitDuration == IF tokens < 0 THEN durationFromTokens(lim.limit, -tokens)
                                          ELSE NoDuration
            ok == n <= lim.burst /\ waitDuration.num <= InfDuration * waitDuration.den
        IN  IF ok
            THEN [ok |-> TRUE, lim |-> [lim EXCEPT !.last = t, !.tokens = tokens],
                  delay |-> waitDuration]
            ELSE [ok |-> FALSE, lim |-> lim, delay |-> NoDuration]

\* Limiter.WaitN(context.TODO(), n) up to the point where it returns or starts
\* its timer: [err, lim, delay].  context.TODO() is never cancelled and has no
\* deadline, so the only failures are the two burst checks.
WaitN(lim, t, n) ==
    IF n > lim.burst /\ lim.limit # Inf
    THEN [err |-> "ErrExceedsBurst", lim |-> lim, delay |-> NoDuration]
    ELSE LET r == reserveN(lim, t, n)
         IN  IF ~r.ok
             THEN [err |-> "ErrExceedsDeadline", lim |-> r.lim, delay |-> NoDuration]
             ELSE [err |-> "nil", lim |-> r.lim, delay |-> r.delay]


\* nothing admitted yet
NoAdmissions == [level |-> 0, front |-> 0]

\* the nil *rate.Limiter
NilLimiter == [obj |-> 0, limit |-> 0, burst |-> 0, tokens |-> 0, last |-> 0]

\* ------------------------------------------------------------------ state
now == 0        \* time.Now(): times are relative to the current instant

VARIABLES
    cfg,        \* the listener's *bandwithConfig
    mu,         \* bandwithConfig.mu: its writer, if any, and its readers
    nextObj,    \* the identity the next rate.NewLimiter gets
    conn,       \* per raw connection: its throttledConnection and the call in progress
    setter,     \* the caller of SetLimits / SetGlobalLimit / SetPerConnLimit
    out,        \* what the step just taken returned to its caller, if it returned
    hist        \* history: arguments of the last NewListener / SetLimits that returned,
                \* reconfigurations so far, admissions

vars == <<cfg, mu, nextObj, conn, setter, out, hist>>

NoResult == [n |-> 0, err |-> "none"]
BufSizes == 1 .. MaxBuf

\* no call returned in this step
NoOut == [kind |-> "none"]

\* what the underlying net.Conn may answer to a Read / Write of n bytes
RawResults(n) == {[n |-> k, err |-> "nil"] : k \in 0 .. n} \cup {[n |-> 0, err |-> "EOF"]}

\* what it answers once the deadline set on it has passed
RawTimeout == [n |-> 0, err |-> "ErrDeadlineExceeded"]
RawErrors == {"nil", "EOF", "ErrDeadlineExceeded"}

\* ------------------------------------------------------------ sync.RWMutex
\* nobody holds the lock
Unlocked == [writer |-> FALSE, readers |-> {}]

\* Lock returns once there is no writer and no reader; RLock once there is no
\* writer
CanLock(m) == ~m.writer /\ m.readers = {}
CanRLock(m) == ~m.writer

Lock(m) == [m EXCEPT !.writer = TRUE]
Unlock(m) == [m EXCEPT !.writer = FALSE]
RLock(m, c) == [m EXCEPT !.readers = @ \cup {c}]

\* a reader that returns without releasing the lock
RUnlockForgotten(m, c) == m
RUnlock(m, c) == [m EXCEPT !.readers = @ \ {c}]

\* ------------------------------------------------------------ construction
\* NewBandwithConfig(globalLimit, perConnLimit); the write limiter is object 1,
\* the read limiter object 2
NewBandwithConfig(globalLimit, perConnLimit) ==
    [globalWriteLimiter |-> NewLimiter(1, formatRateLimit(globalLimit), formatBurst(globalLimit)),
     globalReadLimiter  |-> NewLimiter(2, formatRateLimit(globalLimit), formatBurst(globalLimit)),
     perConnWriteLimit  |-> formatRateLimit(perConnLimit),
     perConnReadLimit   |-> formatRateLimit(perConnLimit)]

\* NewConnectionBandwithConfig(bandwithConfig): both private limiters are seeded
\* from perConnReadLimit, which is read four times and without the lock;
\* bandwithConfig[i] is the configuration as the i-th read finds it.
NewConnectionBandwithConfigShared(bandwithConfig, id) ==
    [perConnReadLimiter  |-> NewLimiter(3, bandwithConfig[1].perConnReadLimit,
                                parseBurstFromRateLimit(bandwithConfig[2].perConnReadLimit)),
     perConnWriteLimiter |-> NewLimiter(4, bandwithConfig[3].perConnReadLimit,
                                parseBurstFromRateLimit(bandwithConfig[4].perConnReadLimit))]

NewConnectionBandwithConfig(bandwithConfig, id) ==
    [perConnReadLimiter  |-> NewLimiter(id, bandwithConfig[1].perConnReadLimit,
                                parseBurstFromRateLimit(bandwithConfig[2].perConnReadLimit)),
     perConnWriteLimiter |-> NewLimiter(id + 1, bandwithConfig[3].perConnReadLimit,
                                parseBurstFromRateLimit(bandwithConfig[4].perConnReadLimit))]

\* a raw connection the listener has not handed out yet
NoConn ==
    [st |-> "none", perConnReadLimiter |-> NilLimiter, perConnWriteLimiter |-> NilLimiter,
     op |-> "none", pc |-> "idle", n |-> 0, wake |-> NoDuration, trace |-> <<>>,
     gobj |-> 0, pobj |-> 0, dirty |-> FALSE, raced |-> FALSE,
     admR |-> NoAdmissions, admW |-> NoAdmissions]

\* nobody is reconfiguring
SetterIdle == [pc |-> "idle", g |-> 0, p |-> 0]

\* NewListener(l, globalLimit, perConnLimit)
Init ==
    \E globalLimit \in OptLimits, perConnLimit \in OptLimits :
        /\ cfg = NewBandwithConfig(globalLimit, perConnLimit)
        /\ mu = Unlocked
        /\ nextObj = 3
        /\ conn = [c \in Conns |-> NoConn]
        /\ setter = SetterIdle
        /\ out = NoOut
        /\ hist = [globalLimit |-> globalLimit, perConnLimit |-> perConnLimit,
                   gSet |-> FALSE, pSet |-> FALSE, sets |-> 0,
                   admR |-> NoAdmissions, admW |-> NoAdmissions]

\* ------------------------------------------------------- listener.go: Accept
\* Listener.Accept: the raw listener hands out the next raw connection c, or fails
Accept(c, rawErr) ==
    /\ conn[c].st = "none"
    /\ \A d \in Conns : d < c => conn[d].st # "none"
    /\ IF rawErr # "nil"
       THEN /\ out' = [kind |-> "Accept", rawConn |-> 0, rawErr |-> rawErr,
                        conn |-> 0, err |-> rawErr]
            /\ UNCHANGED <<conn, nextObj>>
       ELSE LET config == NewConnectionBandwithConfig(<<cfg, cfg, cfg, cfg>>, nextObj)
            IN  /\ out' = [kind |-> "Accept", rawConn |-> c, rawErr |-> "nil",
                            conn |-> c, err |-> "nil"]
                /\ conn' = [conn EXCEPT ![c] =
                               [NoConn EXCEPT !.st = "open",
                                   !.perConnReadLimiter = config.perConnReadLimiter,
                                   !.perConnWriteLimiter = config.perConnWriteLimiter]]
                /\ nextObj' = nextObj + 2
    /\ UNCHANGED <<cfg, mu, setter, hist>>


\* ------------------------------------------------------ config.go: accessors
\* connectionBandwithConfig.GlobalReadLimiter / GlobalWriteLimiter
GlobalReadLimiterIsWrite == cfg.globalWriteLimiter
GlobalReadLimiter == cfg.globalReadLimiter
GlobalWriteLimiter == cfg.globalWriteLimiter
\* bandwithConfig.GlobalReadLimiter / GlobalWriteLimiter (under mu.RLock): both
\* return c.globalWriteLimiter.  Nothing in the package calls them.
bandwithConfigGlobalReadLimiter == cfg.globalWriteLimiter
bandwithConfigGlobalWriteLimiter == cfg.globalWriteLimiter
\* bandwithConfig.PerConnReadLimit / PerConnWriteLimit (under mu.RLock)
PerConnReadLimit == cfg.perConnReadLimit
PerConnWriteLimit == cfg.perConnWriteLimit
\* connectionBandwithConfig.PerConnReadLimiter / PerConnWriteLimiter
PerConnReadLimiter(c) == conn[c].perConnReadLimiter
PerConnWriteLimiter(c) == conn[c].perConnWriteLimiter

\* connectionBandwithConfig.SetPerConnReadLimit / SetPerConnWriteLimit on a
\* private limiter
SetPerConnReadLimitKeepsBurst(lim, id, t, perConnLimit) ==
    IF lim = NilLimiter
    THEN NewLimiter(id, perConnLimit, parseBurstFromRateLimit(perConnLimit))
    ELSE SetLimit(lim, t, perConnLimit)

SetPerConnReadLimit(lim, id, t, perConnLimit) ==
    IF lim = NilLimiter
    THEN NewLimiter(id, perConnLimit, parseBurstFromRateLimit(perConnLimit))
    ELSE SetBurst(SetLimit(lim, t, perConnLimit), t, parseBurstFromRateLimit(perConnLimit))

SetPerConnWriteLimit(lim, id, t, perConnLimit) ==
    IF lim = NilLimiter
    THEN NewLimiter(id, perConnLimit, parseBurstFromRateLimit(perConnLimit))
    ELSE SetBurst(SetLimit(lim, t, perConnLimit), t, parseBurstFromRateLimit(perConnLimit))

\* ---------------------------------------------------------------- history
\* The admissions of a bucket of constant finite rate: a WaitN of n tokens
\* admits them at its timeToAct.  front is rate * (the latest timeToAct so far
\* - now), 0 when that time has passed; level is the largest excess, over the
\* intervals [s, u] that end at u = max(now, the latest timeToAct), of the
\* tokens admitted in the interval over rate * (u - s).  "The tokens admitted
\* in any interval of t clock units are at most rate * t + B" is "level <= B
\* at all times".  Admissions are kept while the bucket has the rate it was
\* constructed with (on), and for finite rates only.
Admit(adm, limit, n, delay, on) ==
    IF limit = Inf \/ ~on THEN NoAdmissions
    ELSE LET front == (delay.num * limit) \div delay.den
         IN  [level |-> Max(0, adm.level - (front - adm.front)) + n, front |-> front]

\* one clock unit passes
Decay(adm, limit, on) ==
    IF limit = Inf \/ ~on THEN NoAdmissions
    ELSE IF limit <= 0 THEN adm
    ELSE IF adm.front >= limit THEN [adm EXCEPT !.front = @ - limit]
    ELSE [level |-> Max(0, adm.level - (limit - adm.front)), front |-> 0]

\* ------------------------------------------- throttledConnection.Read / Write
\* return c.Conn.Read(b) / c.Conn.Write(b): the raw connection's answer is the
\* call's result
DelegateDropsError(res) == [res EXCEPT !.err = "nil"]
Delegate(res) == res

\* return 0, err: a failed WaitN ends the call
ConsumeFailedReportsLen(n, err) == [n |-> n, err |-> err]
ConsumeFailed(n, err) == [n |-> 0, err |-> err]

\* the connection after its call returned
Idle(cn) ==
    [cn EXCEPT !.pc = "idle", !.op = "none", !.n = 0, !.wake = NoDuration, !.trace = <<>>,
               !.gobj = 0, !.pobj = 0, !.dirty = FALSE]

\* A call of connection c returns res; raw is what the raw connection answered,
\* if it was asked.
Returned(c, cn, res, raw) ==
    [kind |-> cn.op, conn |-> c, n |-> cn.n, trace |-> cn.trace, ret |-> res, raw |-> raw,
     gobj |-> cn.gobj, pobj |-> cn.pobj, dirty |-> cn.dirty]

\* The accessors return pointers: what a call does to the limiter it got is
\* done to that object, wherever the configuration holds it.
Store(config, lim) ==
    [config EXCEPT !.globalReadLimiter = IF @.obj = lim.obj THEN lim ELSE @,
                   !.globalWriteLimiter = IF @.obj = lim.obj THEN lim ELSE @]

\* the same for a private limiter and the connections' configurations
StorePrivate(conns, lim) ==
    [d \in Conns |->
        [conns[d] EXCEPT
            !.perConnReadLimiter = IF @.obj = lim.obj /\ lim.obj # 0 THEN lim ELSE @,
            !.perConnWriteLimiter = IF @.obj = lim.obj /\ lim.obj # 0 THEN lim ELSE @]]

\* Read(b) / Write(b) with len(b) = n, first statement: WaitN on the global
\* limiter of the side.
GlobalConsume(c, op, n) ==
    /\ conn[c].st = "open"
    /\ conn[c].pc = "idle"
    /\ LET lim == IF op = "Read" THEN GlobalReadLimiter ELSE GlobalWriteLimiter
           w == WaitN(lim, now, n)
           cn == [conn[c] EXCEPT !.op = op, !.n = n, !.trace = <<"globalConsume">>,
                                 !.gobj = lim.obj]
       IN  /\ cfg' = Store(cfg, w.lim)
           /\ IF w.err # "nil"
              THEN /\ conn' = [conn EXCEPT ![c] = Idle(cn)]
                   /\ out' = Returned(c, cn, ConsumeFailed(n, w.err), NoResult)
                   /\ hist' = hist
              ELSE /\ conn' = [conn EXCEPT ![c] =
                                IF w.delay.num = 0 THEN [cn EXCEPT !.pc = "drift"]
                                ELSE [cn EXCEPT !.pc = "gwait", !.wake = w.delay]]
                   /\ out' = NoOut
                   /\ hist' = IF op = "Read"
                              THEN [hist EXCEPT !.admR = Admit(@, lim.limit, n, w.delay, ~hist.gSet)]
                              ELSE [hist EXCEPT !.admW = Admit(@, lim.limit, n, w.delay, ~hist.gSet)]
    /\ UNCHANGED <<mu, nextObj, setter>>

\* a timer is due when no time is left on it
Due(timer) == timer.num <= now

\* a timer one clock unit later
Later(timer) ==
    IF timer.num <= timer.den THEN NoDuration ELSE [timer EXCEPT !.num = @ - timer.den]

\* the timer of the global WaitN fires: WaitN returns nil
GlobalWake(c) ==
    /\ conn[c].pc = "gwait"
    /\ Due(conn[c].wake)
    /\ conn' = [conn EXCEPT ![c].pc = "drift", ![c].wake = NoDuration]
    /\ out' = NoOut
    /\ UNCHANGED <<cfg, mu, nextObj, setter, hist>>

\* a handler without the drift check: from the global WaitN straight to the
\* private one
DriftCheckOmitted(c) ==
    /\ conn[c].pc = "drift"
    /\ conn' = [conn EXCEPT ![c].pc = "perconn"]
    /\ out' = NoOut
    /\ UNCHANGED <<cfg, mu, nextObj, setter, hist>>

\* the drift check: globalConfig.PerConnReadLimit() != PerConnReadLimiter().Limit()
\* (Write: PerConnWriteLimit() != PerConnWriteLimiter().Limit()); the first
\* operand takes bandwithConfig.mu.RLock
DriftCheck(c) ==
    /\ conn[c].pc = "drift"
    /\ CanRLock(mu)
    /\ LET differ == IF conn[c].op = "Read"
                     THEN PerConnReadLimit # PerConnReadLimiter(c).limit
                     ELSE PerConnWriteLimit # PerConnWriteLimiter(c).limit
       IN  conn' = [conn EXCEPT ![c].pc = IF differ THEN "apply" ELSE "perconn",
                                ![c].trace = Append(@, "driftCheck")]
    /\ mu' = RUnlock(RLock(mu, c), c)
    /\ out' = NoOut
    /\ UNCHANGED <<cfg, nextObj, setter, hist>>

\* SetPerConnReadLimit(globalConfig.perConnReadLimit) (Write:
\* SetPerConnWriteLimit(globalConfig.perConnReadLimit)): the field is read
\* without the lock
DriftApply(c) ==
    /\ conn[c].pc = "apply"
    /\ LET lim == IF conn[c].op = "Read"
                  THEN SetPerConnReadLimit(PerConnReadLimiter(c), nextObj, now,
                                           cfg.perConnReadLimit)
                  ELSE SetPerConnWriteLimit(PerConnWriteLimiter(c), nextObj, now,
                                            cfg.perConnReadLimit)
       IN  conn' = StorePrivate(
                       [conn EXCEPT ![c].pc = "perconn",
                                    ![c].trace = Append(@, "driftApply")], lim)
    /\ out' = NoOut
    /\ UNCHANGED <<cfg, mu, nextObj, setter, hist>>

\* WaitN on the private limiter of the side
PerConnConsume(c) ==
    /\ conn[c].pc = "perconn"
    /\ LET op == conn[c].op
           n == conn[c].n
           lim == IF op = "Read" THEN PerConnReadLimiter(c) ELSE PerConnWriteLimiter(c)
           w == WaitN(lim, now, n)
           cn == [conn[c] EXCEPT !.trace = Append(@, "perConnConsume"), !.pobj = lim.obj]
       IN  /\ out' = IF w.err # "nil"
                       THEN Returned(c, cn, ConsumeFailed(n, w.err), NoResult)
                       ELSE NoOut
           /\ conn' = StorePrivate([conn EXCEPT ![c] =
                IF w.err # "nil" THEN Idle(cn)
                ELSE [cn EXCEPT
                         !.pc = IF w.delay.num = 0 THEN "io" ELSE "pwait",
                         !.wake = w.delay,
                         !.admR = IF op = "Read"
                                  THEN Admit(@, lim.limit, n, w.delay, ~hist.pSet) ELSE @,
                         !.admW = IF op = "Write"
                                  THEN Admit(@, lim.limit, n, w.delay, ~hist.pSet) ELSE @]],
                w.lim)
    /\ UNCHANGED <<cfg, mu, nextObj, setter, hist>>

\* the timer of the private WaitN fires
PerConnWake(c) ==
    /\ conn[c].pc = "pwait"
    /\ Due(conn[c].wake)
    /\ conn' = [conn EXCEPT ![c].pc = "io", ![c].wake = NoDuration]
    /\ out' = NoOut
    /\ UNCHANGED <<cfg, mu, nextObj, setter, hist>>

\* a handler that gives the tokens of the bytes not transferred back to the
\* global limiter of its side
UnderlyingRefunds(c, res) ==
    /\ conn[c].pc = "io"
    /\ IF conn[c].st = "expired" THEN res = RawTimeout ELSE res \in RawResults(conn[c].n)
    /\ LET cn == [conn[c] EXCEPT !.trace = Append(@, "underlying")]
           lim == IF conn[c].op = "Read" THEN GlobalReadLimiter ELSE GlobalWriteLimiter
       IN  /\ conn' = [conn EXCEPT ![c] = Idle(cn)]
           /\ out' = Returned(c, cn, Delegate(res), res)
           /\ cfg' = Store(cfg, [lim EXCEPT !.tokens = @ + (conn[c].n - res.n)])
    /\ UNCHANGED <<mu, nextObj, setter, hist>>

\* return c.Conn.Read(b) / c.Conn.Write(b)
Underlying(c, res) ==
    /\ conn[c].pc = "io"
    /\ IF conn[c].st = "expired" THEN res = RawTimeout ELSE res \in RawResults(conn[c].n)
    /\ LET cn == [conn[c] EXCEPT !.trace = Append(@, "underlying")]
       IN  /\ conn' = [conn EXCEPT ![c] = Idle(cn)]
           /\ out' = Returned(c, cn, Delegate(res), res)
    /\ UNCHANGED <<cfg, mu, nextObj, setter, hist>>


\* --------------------------------------------- config.go: reconfiguration
\* bandwithConfig.SetGlobalLimit on one global limiter, first statement of the
\* branch (the limiter is created when nil, else SetLimit) and second (SetBurst)
SetGlobalLimitReplaces(lim, id, t, globalLimit) ==
    NewLimiter(id, formatRateLimit(globalLimit), formatBurst(globalLimit))

SetGlobalLimitRate(lim, id, t, globalLimit) ==
    IF lim = NilLimiter
    THEN NewLimiter(id, formatRateLimit(globalLimit), formatBurst(globalLimit))
    ELSE SetLimit(lim, t, formatRateLimit(globalLimit))

SetGlobalLimitBurst(lim, t, globalLimit) ==
    SetBurst(lim, t, formatBurst(globalLimit))

\* bandwithConfig.SetPerConnLimit, its two assignments
\* (a SetPerConnLimit for which a limit of 0 means unlimited)
SetPerConnLimitReadZeroIsInf(config, perConnLimit) ==
    [config EXCEPT !.perConnReadLimit =
        IF perConnLimit = Ptr(0) THEN Inf ELSE formatRateLimit(perConnLimit)]

SetPerConnLimitRead(config, perConnLimit) ==
    [config EXCEPT !.perConnReadLimit = formatRateLimit(perConnLimit)]

\* a SetPerConnLimit that also sets the global write limiter to the limit
SetPerConnLimitWriteAlsoGlobal(config, perConnLimit) ==
    [config EXCEPT !.perConnWriteLimit = formatRateLimit(perConnLimit),
                   !.globalWriteLimiter.limit = formatRateLimit(perConnLimit)]

SetPerConnLimitWrite(config, perConnLimit) ==
    [config EXCEPT !.perConnWriteLimit = formatRateLimit(perConnLimit)]

Fresh(lim) == IF lim.obj = nextObj THEN nextObj + 1 ELSE nextObj

\* Listener.SetLimits(g, p) starts with SetGlobalLimit(&g): mu.Lock, then the
\* write limiter's rate
SetGlobalWriteRate(g, p) ==
    /\ setter.pc = "idle"
    /\ hist.sets < MaxSets
    /\ CanLock(mu)
    /\ LET lim == SetGlobalLimitRate(cfg.globalWriteLimiter, nextObj, now, Ptr(g))
       IN  /\ cfg' = [cfg EXCEPT !.globalWriteLimiter = lim]
           /\ nextObj' = Fresh(lim)
    /\ mu' = Lock(mu)
    /\ setter' = [pc |-> "wBurst", g |-> g, p |-> p]
    /\ hist' = [hist EXCEPT !.gSet = TRUE, !.sets = @ + 1,
                            !.admR = NoAdmissions, !.admW = NoAdmissions]
    /\ out' = NoOut
    /\ UNCHANGED <<conn>>

SetGlobalWriteBurst ==
    /\ setter.pc = "wBurst"
    /\ cfg' = [cfg EXCEPT !.globalWriteLimiter = SetGlobalLimitBurst(@, now, Ptr(setter.g))]
    /\ setter' = [setter EXCEPT !.pc = "rRate"]
    /\ out' = NoOut
    /\ UNCHANGED <<mu, nextObj, conn, hist>>

SetGlobalReadRate ==
    /\ setter.pc = "rRate"
    /\ LET lim == SetGlobalLimitRate(cfg.globalReadLimiter, nextObj, now, Ptr(setter.g))
       IN  /\ cfg' = [cfg EXCEPT !.globalReadLimiter = lim]
           /\ nextObj' = Fresh(lim)
    /\ setter' = [setter EXCEPT !.pc = "rBurst"]
    /\ out' = NoOut
    /\ UNCHANGED <<mu, conn, hist>>

\* the read limiter's burst, then mu.Unlock: SetGlobalLimit returns
SetGlobalReadBurst ==
    /\ setter.pc = "rBurst"
    /\ cfg' = [cfg EXCEPT !.globalReadLimiter = SetGlobalLimitBurst(@, now, Ptr(setter.g))]
    /\ mu' = Unlock(mu)
    /\ setter' = [setter EXCEPT !.pc = "perConn"]
    /\ out' = [kind |-> "SetGlobalLimit", g |-> setter.g]
    /\ UNCHANGED <<nextObj, conn, hist>>

\* every call in progress has now seen a reconfiguration of the per-connection limit
MarkDirty ==
    [c \in Conns |-> [conn[c] EXCEPT !.dirty = (conn[c].pc # "idle"),
                                     !.admR = NoAdmissions, !.admW = NoAdmissions]]

\* the second half of SetLimits, SetPerConnLimit(&p): mu.Lock, then the stored
\* read limit
SetPerConnRead ==
    /\ setter.pc = "perConn"
    /\ CanLock(mu)
    /\ mu' = Lock(mu)
    /\ cfg' = SetPerConnLimitRead(cfg, Ptr(setter.p))
    /\ setter' = [setter EXCEPT !.pc = "pWrite"]
    /\ out' = NoOut
    /\ conn' = MarkDirty
    /\ hist' = [hist EXCEPT !.pSet = TRUE]
    /\ UNCHANGED <<nextObj>>

\* the stored write limit, then mu.Unlock: SetPerConnLimit and SetLimits return
SetPerConnWrite ==
    /\ setter.pc = "pWrite"
    /\ cfg' = SetPerConnLimitWrite(cfg, Ptr(setter.p))
    /\ mu' = Unlock(mu)
    /\ setter' = SetterIdle
    /\ out' = [kind |-> "SetLimits", g |-> setter.g, p |-> setter.p]
    /\ hist' = [hist EXCEPT !.globalLimit = Ptr(setter.g), !.perConnLimit = Ptr(setter.p)]
    /\ UNCHANGED <<nextObj, conn>>

\* Listener.Accept while SetPerConnLimit assigns the stored read limit: the
\* four reads of NewConnectionBandwithConfig race with the assignment.  The
\* reads are of one word and in program order, so the first `old` of them find
\* the old value and the others the new one.  The step is the Accept together
\* with the assignment it overlaps.
AcceptRacing(c, old) ==
    /\ conn[c].st = "none"
    /\ \A d \in Conns : d < c => conn[d].st # "none"
    /\ setter.pc = "perConn"
    /\ CanLock(mu)
    /\ LET after == SetPerConnLimitRead(cfg, Ptr(setter.p))
           config == NewConnectionBandwithConfig(
                         [i \in 1 .. 4 |-> IF i > old THEN after ELSE cfg], nextObj)
       IN  /\ after # cfg
           /\ cfg' = after
           /\ conn' = [MarkDirty EXCEPT ![c] =
                          [NoConn EXCEPT !.st = "open", !.raced = TRUE,
                              !.perConnReadLimiter = config.perConnReadLimiter,
                              !.perConnWriteLimiter = config.perConnWriteLimiter]]
    /\ mu' = Lock(mu)
    /\ setter' = [setter EXCEPT !.pc = "pWrite"]
    /\ nextObj' = nextObj + 2
    /\ out' = [kind |-> "Accept", rawConn |-> c, rawErr |-> "nil", conn |-> c, err |-> "nil"]
    /\ hist' = [hist EXCEPT !.pSet = TRUE]

\* ------------------------------------------------------------------- time
\* a call of c is at a statement that does not wait: the drift check when the
\* lock is free, the drift update, the call of the private WaitN
Running(c) ==
    \/ conn[c].pc = "drift" /\ CanRLock(mu)
    \/ conn[c].pc \in {"apply", "perconn"}

\* The clock advances by one unit; a timer that is due fires before it does,
\* and a statement that can run runs before it does: time passes for a call
\* while it waits in WaitN, for the lock or in the underlying I/O, and a
\* SetLimits, none of whose statements waits for a call, returns within the
\* clock unit it began in.
Tick ==
    /\ \A c \in Conns : conn[c].pc \in {"gwait", "pwait"} => ~Due(conn[c].wake)
    /\ \A c \in Conns : ~Running(c)
    /\ setter.pc = "idle"
    /\ cfg' = [cfg EXCEPT !.globalReadLimiter = Elapse(@),
                          !.globalWriteLimiter = Elapse(@)]
    /\ conn' = [c \in Conns |->
                  [conn[c] EXCEPT !.perConnReadLimiter = Elapse(@),
                                  !.perConnWriteLimiter = Elapse(@),
                                  !.wake = Later(@),
                                  !.admR = Decay(@, conn[c].perConnReadLimiter.limit, ~hist.pSet),
                                  !.admW = Decay(@, conn[c].perConnWriteLimiter.limit, ~hist.pSet)]]
    /\ hist' = [hist EXCEPT !.admR = Decay(@, cfg.globalReadLimiter.limit, ~hist.gSet),
                            !.admW = Decay(@, cfg.globalWriteLimiter.limit, ~hist.gSet)]
    /\ out' = NoOut
    /\ UNCHANGED <<mu, nextObj, setter>>

Next ==
    \/ \E c \in Conns, rawErr \in {"nil", "ErrAccept"} : Accept(c, rawErr)
    \/ \E c \in Conns, op \in {"Read", "Write"}, n \in BufSizes : GlobalConsume(c, op, n)
    \/ \E c \in Conns : GlobalWake(c)
    \/ \E c \in Conns : DriftCheck(c)
    \/ \E c \in Conns : DriftApply(c)
    \/ \E c \in Conns : PerConnConsume(c)
    \/ \E c \in Conns : PerConnWake(c)
    \/ \E c \in Conns, k \in 0 .. MaxBuf, e \in RawErrors : Underlying(c, [n |-> k, err |-> e])
    \/ \E g \in Limits, p \in Limits : SetGlobalWriteRate(g, p)
    \/ SetGlobalWriteBurst
    \/ SetGlobalReadRate
    \/ SetGlobalReadBurst
    \/ \E c \in Conns, old \in 1 .. 3 : AcceptRacing(c, old)
    \/ SetPerConnRead
    \/ SetPerConnWrite
    \/ Tick

Spec == Init /\ [][Next]_vars

\* ---------------------------------------------------- deadlines (net.Conn)
\* throttledConnection embeds net.Conn, so SetDeadline / SetReadDeadline /
\* SetWriteDeadline are those of the raw connection.  The deadline the caller
\* set for the call in progress on c passes: the raw connection fails its I/O
\* from now on.  Read and Write hand context.TODO() to WaitN, so nothing reaches
\* a call that waits there.
DeadlineExceeded(c) ==
    /\ conn[c].st = "open"
    /\ conn[c].pc # "idle"
    /\ conn' = [conn EXCEPT ![c].st = "expired"]
    /\ out' = NoOut
    /\ UNCHANGED <<cfg, mu, nextObj, setter, hist>>

\* a listener that is not reconfigured, whose callers set deadlines
NextDeadline ==
    \/ \E c \in Conns, rawErr \in {"nil", "ErrAccept"} : Accept(c, rawErr)
    \/ \E c \in Conns, op \in {"Read", "Write"}, n \in BufSizes : GlobalConsume(c, op, n)
    \/ \E c \in Conns : GlobalWake(c)
    \/ \E c \in Conns : DriftCheck(c)
    \/ \E c \in Conns : PerConnConsume(c)
    \/ \E c \in Conns : PerConnWake(c)
    \/ \E c \in Conns, k \in 0 .. MaxBuf, e \in RawErrors : Underlying(c, [n |-> k, err |-> e])
    \/ \E c \in Conns : DeadlineExceeded(c)
    \/ Tick

SpecDeadline == Init /\ [][NextDeadline]_vars

\* ------------------------------------------------------ negative limits
\* NewListener(l, globalLimit, perConnLimit) with a limit that may be negative
OptLimitsNegative == OptLimits \cup {Ptr(0 - 1)}

InitNegative ==
    \E globalLimit \in OptLimitsNegative, perConnLimit \in OptLimitsNegative :
        /\ cfg = NewBandwithConfig(globalLimit, perConnLimit)
        /\ mu = Unlocked
        /\ nextObj = 3
        /\ conn = [c \in Conns |-> NoConn]
        /\ setter = SetterIdle
        /\ out = NoOut
        /\ hist = [globalLimit |-> globalLimit, perConnLimit |-> perConnLimit,
                   gSet |-> FALSE, pSet |-> FALSE, sets |-> 0,
                   admR |-> NoAdmissions, admW |-> NoAdmissions]

NextNegative ==
    \/ \E c \in Conns, rawErr \in {"nil", "ErrAccept"} : Accept(c, rawErr)
    \/ \E c \in Conns, op \in {"Read", "Write"}, n \in BufSizes : GlobalConsume(c, op, n)
    \/ \E c \in Conns : GlobalWake(c)
    \/ \E c \in Conns : DriftCheck(c)
    \/ \E c \in Conns : PerConnConsume(c)
    \/ \E c \in Conns : PerConnWake(c)
    \/ \E c \in Conns, k \in 0 .. MaxBuf, e \in RawErrors : Underlying(c, [n |-> k, err |-> e])
    \/ Tick

SpecNegative == InitNegative /\ [][NextNegative]_vars


\* ================================================================ claims
Calls == {"Read", "Write"}
LimiterErrors == {"ErrExceedsBurst", "ErrExceedsDeadline"}

\* a Read or Write returned in the step just taken
CallReturned == out.kind \in Calls

IsPrefix(p, q) == Len(p) <= Len(q) /\ SubSeq(q, 1, Len(p)) = p

\* the steps of a call, in the order of the handler; driftApply is the drift
\* check's update, which a call makes or not
StepOrders ==
    {<<"globalConsume", "driftCheck", "perConnConsume", "underlying">>,
     <<"globalConsume", "driftCheck", "driftApply", "perConnConsume", "underlying">>}

InOrder(trace) == \E full \in StepOrders : IsPrefix(trace, full)

\* the identity of the global limiter of a side, as constructed
GlobalObj(op) == IF op = "Read" THEN 2 ELSE 1

\* the identity of connection c's private limiter of a side
PrivateObj(c, op) ==
    IF op = "Read" THEN conn[c].perConnReadLimiter.obj ELSE conn[c].perConnWriteLimiter.obj

\* C1: the steps of every Read and Write, in progress or returned, happen in the
\* order global consume, drift check, per-connection consume, underlying I/O;
\* the global consume is on the global bucket of the call's side and the
\* per-connection consume on the connection's private bucket of that side; a
\* call that reached the underlying stream made both consumes before it and
\* returns the stream's answer (byte count and error) unchanged.
C1_StepOrder ==
    /\ \A c \in Conns : conn[c].pc # "idle" =>
           /\ InOrder(conn[c].trace)
           /\ conn[c].gobj = cfg.globalReadLimiter.obj => conn[c].op = "Read"
           /\ conn[c].gobj = cfg.globalWriteLimiter.obj => conn[c].op = "Write"
           /\ conn[c].pc \in {"pwait", "io"} =>
                  /\ conn[c].pobj = PrivateObj(c, conn[c].op)
                  /\ conn[c].trace[Len(conn[c].trace)] = "perConnConsume"
    /\ CallReturned =>
           /\ InOrder(out.trace)
           /\ out.gobj = GlobalObj(out.kind)
           /\ out.trace[Len(out.trace)] = "underlying" =>
                  /\ out.trace \in StepOrders
                  /\ out.pobj = PrivateObj(out.conn, out.kind)
                  /\ out.ret = out.raw
                  /\ out.raw \in RawResults(out.n)

\* a Write that waited for neither bucket returned what the raw connection
\* answered, an error included
C1_Witness ==
    /\ out.kind = "Write"
    /\ out.trace \in StepOrders
    /\ out.raw.err = "EOF"

\* C2: a Read or Write whose global or per-connection consume failed returns
\* (0, the limiter's error) and the underlying stream was not asked; and a call
\* that returns without having asked the underlying stream returns that.
C2_ConsumeFailure ==
    CallReturned =>
        /\ out.ret.err \in LimiterErrors =>
               /\ out.ret.n = 0
               /\ out.raw = NoResult
               /\ out.trace[Len(out.trace)] \in {"globalConsume", "perConnConsume"}
        /\ out.trace[Len(out.trace)] # "underlying" =>
               /\ out.ret.n = 0
               /\ out.ret.err \in LimiterErrors
               /\ out.raw = NoResult

\* the global consume succeeded and the per-connection consume failed
C2_Witness ==
    /\ CallReturned
    /\ out.ret.err \in LimiterErrors
    /\ out.trace[Len(out.trace)] = "perConnConsume"

\* C3: a call that is about to make its per-connection consume, with no
\* SetPerConnLimit since the call started, on a connection that was not
\* accepted while a SetPerConnLimit ran, makes it against a private limiter
\* of its side whose rate is the listener's per-connection limit of that side
\* and whose burst is that limit's integer value.
C3_DriftConverges ==
    \A c \in Conns :
        (conn[c].pc = "perconn" /\ ~conn[c].dirty /\ ~conn[c].raced) =>
            LET lim == IF conn[c].op = "Read" THEN conn[c].perConnReadLimiter
                                              ELSE conn[c].perConnWriteLimiter
                limit == IF conn[c].op = "Read" THEN cfg.perConnReadLimit
                                                ELSE cfg.perConnWriteLimit
            IN  /\ lim.limit = limit
                /\ lim.burst = parseBurstFromRateLimit(limit)

\* after SetLimits changed the per-connection limit, a connection accepted
\* before it is about to consume from its private read limiter, which the drift
\* check of this call has updated
C3_Witness ==
    \E c \in Conns :
        /\ hist.pSet
        /\ conn[c].pc = "perconn" /\ ~conn[c].dirty /\ conn[c].op = "Read"
        /\ conn[c].trace = <<"globalConsume", "driftCheck", "driftApply">>
        /\ ~conn[c].raced

\* C4: the listener's global write and read limiters are at all times the two
\* objects made at construction, every call consumes from the one of its side,
\* and when SetGlobalLimit(G) returns both have rate G and burst G.
C4_GlobalLimitersInPlace ==
    /\ cfg.globalWriteLimiter.obj = 1
    /\ cfg.globalReadLimiter.obj = 2
    /\ \A c \in Conns : conn[c].pc # "idle" => conn[c].gobj = GlobalObj(conn[c].op)
    /\ out.kind = "SetGlobalLimit" =>
           /\ cfg.globalWriteLimiter.limit = out.g /\ cfg.globalWriteLimiter.burst = out.g
           /\ cfg.globalReadLimiter.limit = out.g /\ cfg.globalReadLimiter.burst = out.g

\* SetGlobalLimit returned with a connection open and a call of it in progress
C4_Witness ==
    /\ out.kind = "SetGlobalLimit"
    /\ formatRateLimit(hist.globalLimit) # out.g
    /\ \E c \in Conns : conn[c].pc \in {"gwait", "drift"}


\* C5: while the global limit is the finite G given at construction, the tokens
\* the global read bucket admitted, summed over all connections, in any
\* interval of t clock units are at most G * t + G (the level of the bucket is
\* at most G); the same for the global write bucket.
C5_GlobalAggregateBound ==
    (~hist.gSet /\ hist.globalLimit # Nil) =>
        /\ hist.admR.level <= hist.globalLimit[1]
        /\ hist.admW.level <= hist.globalLimit[1]

\* two connections share the global read bucket: the Read of one was admitted
\* with the whole burst, the Read of the other waits for the refill
C5_Witness ==
    /\ ~hist.gSet /\ hist.globalLimit # Nil
    /\ hist.admR.level = hist.globalLimit[1] /\ hist.admR.level > 0
    /\ \E c, d \in Conns :
           /\ c # d
           /\ conn[c].op = "Read" /\ conn[c].pc \in {"drift", "apply", "perconn", "pwait", "io"}
           /\ conn[d].op = "Read" /\ conn[d].pc = "gwait"

\* C6: with no global limit and the per-connection limit the finite L given at
\* construction, the tokens a connection's private read bucket admitted in any
\* interval of t clock units are at most L * t + L, and the same for its
\* private write bucket: D tokens take at least (D - L) / L clock units.
C6_PerConnBound ==
    (hist.globalLimit = Nil /\ ~hist.gSet /\ hist.perConnLimit # Nil) =>
        \A c \in Conns :
            /\ conn[c].admR.level <= hist.perConnLimit[1]
            /\ conn[c].admW.level <= hist.perConnLimit[1]

\* a connection that was charged its burst on the write side waits in its next
\* Write for the refill
C6_Witness ==
    /\ hist.globalLimit = Nil /\ ~hist.gSet /\ hist.perConnLimit # Nil
    /\ \E c \in Conns :
           /\ conn[c].op = "Write" /\ conn[c].pc = "pwait"
           /\ conn[c].perConnWriteLimiter.tokens < 0

LastStep(trace) == trace[Len(trace)]

\* C7: while a limit is the absent one given at construction, no call waits for
\* or fails at the buckets of that limit; with both absent every Read and Write
\* reaches the underlying stream.
C7_UnlimitedNeverBlocks ==
    /\ (hist.globalLimit = Nil /\ ~hist.gSet) =>
           /\ \A c \in Conns : conn[c].pc # "gwait"
           /\ CallReturned => LastStep(out.trace) # "globalConsume"
    /\ (hist.perConnLimit = Nil /\ ~hist.pSet) =>
           /\ \A c \in Conns : conn[c].pc \notin {"apply", "pwait"}
           /\ CallReturned => LastStep(out.trace) # "perConnConsume"
    /\ (hist.globalLimit = Nil /\ hist.perConnLimit = Nil /\ ~hist.gSet) =>
           (CallReturned => LastStep(out.trace) = "underlying")

\* a Read of the largest buffer went through two unlimited buckets
C7_Witness ==
    /\ hist.globalLimit = Nil /\ hist.perConnLimit = Nil /\ ~hist.gSet
    /\ out.kind = "Read" /\ out.n = MaxBuf
    /\ LastStep(out.trace) = "underlying"

\* C8: a listener built with NewListener(l, nil, nil) and not reconfigured
\* answers as l does: Accept returns the raw listener's connection or error,
\* Read and Write return the raw connection's byte count and error, and no call
\* waits.
C8_NilNilTransparent ==
    (hist.globalLimit = Nil /\ hist.perConnLimit = Nil /\ ~hist.gSet) =>
        /\ \A c \in Conns : conn[c].pc \notin {"gwait", "pwait"}
        /\ CallReturned => (out.ret = out.raw /\ out.raw \in RawResults(out.n))
        /\ out.kind = "Accept" => (out.conn = out.rawConn /\ out.err = out.rawErr)

\* a Read on such a listener's second connection returned the raw connection's
\* end of stream
C8_Witness ==
    /\ hist.globalLimit = Nil /\ hist.perConnLimit = Nil /\ ~hist.gSet
    /\ out.kind = "Read" /\ out.conn = 2
    /\ out.ret = [n |-> 0, err |-> "EOF"]

LimiterObjs ==
    {cfg.globalWriteLimiter.obj, cfg.globalReadLimiter.obj}
        \cup {conn[c].perConnReadLimiter.obj : c \in Conns}
        \cup {conn[c].perConnWriteLimiter.obj : c \in Conns}

\* C9: a successful Accept returns the raw connection wrapped with two newly
\* created private limiters, the read one at the listener's per-connection read
\* limit and the write one at its per-connection write limit, as they are at
\* the accept; a failed Accept returns the raw listener's error and produces no
\* connection and no limiter.
C9_AcceptStep ==
    [][out'.kind = "Accept" =>
          IF out'.err = "nil"
          THEN LET c == out'.conn
               IN  /\ out'.rawErr = "nil" /\ c = out'.rawConn
                   /\ conn[c].st = "none" /\ conn'[c].st = "open"
                   /\ conn'[c].perConnReadLimiter.limit = cfg.perConnReadLimit
                   /\ conn'[c].perConnWriteLimiter.limit = cfg.perConnWriteLimit
                   /\ conn'[c].perConnReadLimiter.obj \notin LimiterObjs
                   /\ conn'[c].perConnWriteLimiter.obj \notin LimiterObjs
                   /\ conn'[c].perConnReadLimiter.obj # conn'[c].perConnWriteLimiter.obj
                   /\ \A d \in Conns \ {c} : conn'[d] = conn[d]
          ELSE /\ out'.err = out'.rawErr /\ out'.conn = 0
               /\ conn' = conn /\ nextObj' = nextObj
      ]_vars

\* C10: no Read or Write is rejected by a bucket: a call whose buffer is longer
\* than the burst of a finite-rate bucket returns no limiter error.  (With
\* context.TODO() a limiter rejects a call for no other reason.)
C10_OversizedNotRejected ==
    CallReturned => out.ret.err \notin LimiterErrors

Waiting == {"gwait", "pwait"}

\* C11: a Read or Write that waits for tokens when the deadline of its
\* connection passes does not go on waiting while the clock advances, and it
\* leaves the wait by returning an error.
C11_DeadlineReleasesWaiter ==
    [][\A c \in Conns :
          (conn[c].st = "expired" /\ conn[c].pc \in Waiting) =>
              IF conn'[c].pc \in Waiting
              THEN conn'[c].wake = conn[c].wake
              ELSE out'.kind \in Calls /\ out'.conn = c /\ out'.ret.err # "nil"
      ]_vars

\* the step is a step of a call of connection c (a statement of Read / Write)
StepOf(c) == conn'[c].pc # conn[c].pc \/ (out'.kind \in Calls /\ out'.conn = c)

\* the call that takes it
OpOf(c) ==
    IF conn[c].op # "none" THEN conn[c].op
    ELSE IF conn'[c].op # "none" THEN conn'[c].op
    ELSE out'.kind

\* the buckets of a side
ReadSide == <<cfg.globalReadLimiter, [d \in Conns |-> conn[d].perConnReadLimiter]>>
WriteSide == <<cfg.globalWriteLimiter, [d \in Conns |-> conn[d].perConnWriteLimiter]>>

\* the step is the global consume of a call on c, granted by a bucket lim of
\* finite positive rate
Charged(c, lim) ==
    /\ conn[c].pc = "idle" /\ conn'[c].pc \in {"gwait", "drift"}
    /\ lim.limit \notin {0, Inf}

\* C12: no step of a Read changes the global write bucket or a private write
\* bucket, no step of a Write changes the global read bucket or a private read
\* bucket, and the global consume of a call takes its len(b) tokens from what
\* the global bucket of the call's side holds (its tokens, at most its burst).
C12_SeparateAccounting ==
    [][\A c \in Conns :
          StepOf(c) =>
              /\ OpOf(c) = "Read" =>
                     /\ WriteSide' = WriteSide
                     /\ Charged(c, cfg.globalReadLimiter) =>
                            cfg'.globalReadLimiter.tokens =
                                advance(cfg.globalReadLimiter, now) - conn'[c].n
              /\ OpOf(c) = "Write" =>
                     /\ ReadSide' = ReadSide
                     /\ Charged(c, cfg.globalWriteLimiter) =>
                            cfg'.globalWriteLimiter.tokens =
                                advance(cfg.globalWriteLimiter, now) - conn'[c].n
      ]_vars

\* a Read was charged to the two read buckets of its side, which are now empty,
\* and the write buckets are still full
C12_Witness ==
    \E c \in Conns :
        /\ conn[c].op = "Read" /\ conn[c].pc = "io"
        /\ cfg.globalReadLimiter.limit = 1 /\ cfg.globalReadLimiter.tokens = 0
        /\ cfg.globalWriteLimiter.tokens = 1
        /\ conn[c].perConnReadLimiter.limit = 1 /\ conn[c].perConnReadLimiter.tokens = 0
        /\ conn[c].perConnWriteLimiter.tokens = 1

\* the limiters there are
Limiters ==
    {cfg.globalWriteLimiter, cfg.globalReadLimiter}
        \cup {conn[c].perConnReadLimiter : c \in {d \in Conns : conn[d].st # "none"}}
        \cup {conn[c].perConnWriteLimiter : c \in {d \in Conns : conn[d].st # "none"}}

\* C13: in every state every limiter of finite rate has the integer value of
\* its rate as its burst, and a limiter has burst 0 only if its rate is
\* unlimited or 0.
C13_BurstMatchesRate ==
    \A lim \in Limiters :
        /\ lim.limit # Inf => lim.burst = parseBurstFromRateLimit(lim.limit)
        /\ lim.burst = 0 => lim.limit \in {Inf, 0}

\* the step reads the stored per-connection limits on behalf of connection c:
\* the seeding at Accept, the comparison of the drift check, or its update
ReadsStoredLimits(c) ==
    \/ conn[c].st = "none" /\ conn'[c].st = "open"
    \/ conn[c].pc = "drift" /\ conn'[c].pc \in {"apply", "perconn"}
    \/ conn[c].pc = "apply" /\ conn'[c].pc = "perconn"

\* C14: the stored per-connection limits are read under the lock: no step
\* reads them while SetPerConnLimit is between its Lock and its Unlock, or
\* while it enters there.
C14_StoredLimitsReadUnderLock ==
    [][\A c \in Conns :
          ReadsStoredLimits(c) => (setter.pc # "pWrite" /\ setter'.pc # "pWrite")]_vars

\* C15: the two statements of SetPerConnLimit change the stored
\* per-connection read limit and then the stored write limit, and nothing
\* else: the global limiters and the private limiters of the connections
\* there are stay as they are.
C15_SetPerConnLimitFrame ==
    [][(setter.pc \in {"perConn", "pWrite"} /\ setter'.pc # setter.pc) =>
          /\ cfg'.globalReadLimiter = cfg.globalReadLimiter
          /\ cfg'.globalWriteLimiter = cfg.globalWriteLimiter
          /\ \A c \in Conns : conn[c].st # "none" =>
                 /\ conn'[c].perConnReadLimiter = conn[c].perConnReadLimiter
                 /\ conn'[c].perConnWriteLimiter = conn[c].perConnWriteLimiter
          /\ cfg'.perConnReadLimit = formatRateLimit(Ptr(setter.p))
          /\ IF setter.pc = "perConn"
             THEN cfg'.perConnWriteLimit = cfg.perConnWriteLimit
             ELSE cfg'.perConnWriteLimit = formatRateLimit(Ptr(setter.p))
      ]_vars

\* SetLimits returned and a connection accepted before it, with no call in
\* progress, still has its private limiters at the old limit
C15_Witness ==
    /\ out.kind = "SetLimits"
    /\ \E c \in Conns :
           /\ conn[c].st = "open" /\ conn[c].pc = "idle" /\ ~conn[c].raced
           /\ conn[c].perConnReadLimiter.limit # cfg.perConnReadLimit
           /\ conn[c].perConnWriteLimiter.limit # cfg.perConnWriteLimit

\* C16: a step of a call on one connection (a consume, a drift check, a drift
\* update, the underlying I/O) leaves the private read and write limiters of
\* every other connection as they are.
C16_PrivateLimitersIsolated ==
    [][\A c \in Conns :
          StepOf(c) =>
              \A d \in Conns \ {c} :
                  /\ conn'[d].perConnReadLimiter = conn[d].perConnReadLimiter
                  /\ conn'[d].perConnWriteLimiter = conn[d].perConnWriteLimiter
      ]_vars

\* two connections of one listener with the same finite limit: one has used up
\* its private read bucket and waits, the other's is still full
C16_Witness ==
    /\ conn[1].pc = "pwait" /\ conn[1].op = "Read"
    /\ conn[1].perConnReadLimiter.tokens < 0
    /\ conn[2].st = "open"
    /\ conn[2].perConnReadLimiter.limit = conn[1].perConnReadLimiter.limit
    /\ conn[2].perConnReadLimiter.tokens = conn[2].perConnReadLimiter.burst

\* the global limiter of the side of the call in progress on c
GlobalSide(c) ==
    IF conn[c].op = "Read" THEN cfg.globalReadLimiter ELSE cfg.globalWriteLimiter

\* C17: when no SetGlobalLimit is in progress, the timer of a call that waits
\* in its global consume is one computed from the current rate of the limiter:
\* its wait is a number of tokens over that rate, and it is without end at
\* rate 0.
C17_WaitFollowsRate ==
    \A c \in Conns :
        (conn[c].pc = "gwait" /\ setter.pc \notin {"wBurst", "rRate", "rBurst"}) =>
            \/ Due(conn[c].wake)
            \/ /\ GlobalSide(c).limit \notin {0, Inf}
               /\ conn[c].wake.den = GlobalSide(c).limit
            \/ /\ GlobalSide(c).limit = 0
               /\ conn[c].wake.num >= InfDuration * conn[c].wake.den

\* C18: no limiter holds a negative rate or a negative burst, and no stored
\* per-connection limit is negative.
C18_NoNegativeStored ==
    /\ \A lim \in Limiters : lim.limit >= 0 /\ lim.burst >= 0
    /\ cfg.perConnReadLimit >= 0
    /\ cfg.perConnWriteLimit >= 0

\* C19: outside the critical section of SetPerConnLimit the stored
\* per-connection read limit equals the stored write limit, and a private write
\* limiter that a step seeded (Accept) or updated (the drift check of a Write)
\* is at the stored write limit after the step.
C19_ReadLimitIsWriteLimit ==
    [][/\ setter'.pc # "pWrite" => cfg'.perConnReadLimit = cfg'.perConnWriteLimit
       /\ \A c \in Conns :
              (\/ conn[c].st = "none" /\ conn'[c].st = "open"
               \/ conn[c].pc = "apply" /\ conn[c].op = "Write" /\ conn'[c].pc = "perconn") =>
                  conn'[c].perConnWriteLimiter.limit = cfg'.perConnWriteLimit
      ]_vars

\* the next statement of the caller of SetLimits
SetterStep ==
    \/ \E g \in Limits, p \in Limits : SetGlobalWriteRate(g, p)
    \/ SetGlobalWriteBurst
    \/ SetGlobalReadRate
    \/ SetGlobalReadBurst
    \/ SetPerConnRead
    \/ SetPerConnWrite

AfterGlobalConsume == {"gwait", "drift", "apply", "perconn", "pwait", "io"}

\* C21: once the global WaitN of a Read or Write has taken its tokens, no later
\* statement of the call changes a global limiter: nothing is given back when
\* the private WaitN fails (the call returns 0 and its error without any I/O)
\* or when the underlying I/O transfers fewer bytes than len(b); and the bytes
\* a call reports are at most the len(b) it was charged.
C21_GlobalChargeKept ==
    [][\A c \in Conns :
          (conn[c].pc \in AfterGlobalConsume /\ StepOf(c)) =>
              /\ cfg'.globalReadLimiter = cfg.globalReadLimiter
              /\ cfg'.globalWriteLimiter = cfg.globalWriteLimiter
              /\ (out'.kind \in Calls /\ out'.conn = c) =>
                     /\ out'.ret.n <= conn[c].n
                     /\ out'.ret.err \in LimiterErrors =>
                            out'.ret.n = 0 /\ LastStep(out'.trace) # "underlying"
      ]_vars

\* a Read of one byte emptied the global read bucket and then returned without
\* the byte, because the private WaitN failed or the raw connection gave
\* nothing: the bucket is still empty
C21_Witness ==
    /\ out.kind = "Read" /\ out.n = 1 /\ out.ret.n = 0
    /\ LastStep(out.trace) \in {"perConnConsume", "underlying"}
    /\ cfg.globalReadLimiter.limit = 1
    /\ cfg.globalReadLimiter.tokens = 0

\* the rates a SetLimits can change: those of the two global limiters and the
\* two stored per-connection limits
ConfiguredRates ==
    <<cfg.globalWriteLimiter.limit, cfg.globalReadLimiter.limit,
      cfg.perConnWriteLimit, cfg.perConnReadLimit>>

\* C22: when SetLimits(g, p) returns, the two global limiters have rate g and
\* burst g and the two stored per-connection limits are p, none of them
\* unlimited, also for g = p = 0; no step makes a rate unlimited that was
\* finite; and a rate is unlimited only if its limit was nil at construction
\* and no SetLimits has assigned it yet.
C22_SetLimitsIsFinite ==
    [][/\ out'.kind = "SetLimits" =>
              /\ ConfiguredRates' = <<out'.g, out'.g, out'.p, out'.p>>
              /\ cfg'.globalWriteLimiter.burst = out'.g
              /\ cfg'.globalReadLimiter.burst = out'.g
              /\ \A i \in 1 .. 4 : ConfiguredRates'[i] # Inf
       /\ \A i \in 1 .. 4 : ConfiguredRates[i] # Inf => ConfiguredRates'[i] # Inf
       /\ cfg'.globalWriteLimiter.limit = Inf => hist'.globalLimit = Nil /\ ~hist'.gSet
       /\ cfg'.globalReadLimiter.limit = Inf =>
              hist'.globalLimit = Nil /\ (~hist'.gSet \/ setter'.pc \in {"wBurst", "rRate"})
       /\ cfg'.perConnReadLimit = Inf => hist'.perConnLimit = Nil /\ ~hist'.pSet
       /\ cfg'.perConnWriteLimit = Inf =>
              hist'.perConnLimit = Nil /\ (~hist'.pSet \/ setter'.pc = "pWrite")
      ]_vars

\* SetLimits(0, 0) returned on a listener constructed with a nil per-connection
\* limit (a connection accepted before still has its unlimited private
\* limiter): rate 0 and burst 0, and nothing unlimited in the configuration
C22_Witness ==
    /\ out.kind = "SetLimits" /\ out.g = 0 /\ out.p = 0
    /\ \E c \in Conns : /\ conn[c].st = "open" /\ ~conn[c].raced
                         /\ conn[c].perConnReadLimiter.limit = Inf
    /\ ConfiguredRates = <<0, 0, 0, 0>>
    /\ cfg.globalReadLimiter.burst = 0 /\ cfg.globalWriteLimiter.burst = 0

\* C23: the listener configuration's accessor for the global read limiter
\* returns the object a connection's GlobalReadLimiter returns (the one Reads
\* consume from), and not the object its accessor for the global write limiter
\* returns.
C23_ListenerAccessorReturnsReadLimiter ==
    /\ bandwithConfigGlobalReadLimiter.obj = GlobalReadLimiter.obj
    /\ bandwithConfigGlobalReadLimiter.obj # bandwithConfigGlobalWriteLimiter.obj

====
